---- MODULE Spec2Model ----
(***************************************************************************)
(* Model of untangle (bin/untangle.js): the line-oriented extractor that   *)
(* turns the // comments of a JavaScript program into a Markdown document. *)
(* A string is a sequence of one-character strings, so that every regular  *)
(* expression of the source is computed on the characters of the line.     *)
(***************************************************************************)
EXTENDS Integers, Sequences, FiniteSets, TLC

\* ------------------------------------------------------------------------
\* Bounds of the model
\* ------------------------------------------------------------------------
MaxLines == 4

MaxRuns == 2

\* ------------------------------------------------------------------------
\* Characters and character classes
\* ------------------------------------------------------------------------
Min(S) == CHOOSE x \in S : \A y \in S : x <= y

Max(S) == CHOOSE x \in S : \A y \in S : x >= y

\* A character class of a regular expression: the characters of set, or
\* with neg the characters not in it.
Class(set) == [neg |-> FALSE, set |-> set]

NotClass(set) == [neg |-> TRUE, set |-> set]

In(c, class) == (c \in class.set) # class.neg

SpaceChars == {" ", "\t"}

WordChars ==
  {"a","b","c","d","e","f","g","h","i","j","k","l","m","n","o","p","q","r",
   "s","t","u","v","w","x","y","z","A","B","C","D","E","F","G","H","I","J",
   "K","L","M","N","O","P","Q","R","S","T","U","V","W","X","Y","Z","0","1",
   "2","3","4","5","6","7","8","9","_"}

\* \s
IsSpace == Class(SpaceChars)

\* \S
NotSpace == NotClass(SpaceChars)

\* \/
IsSlash == Class({"/"})

\* #
IsHash == Class({"#"})

\* \W
NotWord == NotClass(WordChars)

\* [^\s:] of the named type signature
SigNameChar == NotClass(SpaceChars \cup {":"})

\* [^\.\s=] of the bound function
\* [^\s=]: the class with the dot left in
BoundNameCharWithDot == NotClass(SpaceChars \cup {"="})

BoundNameChar == NotClass(SpaceChars \cup {".", "="})

\* [^\s\(] of the named function
FuncNameChar == NotClass(SpaceChars \cup {"("})

\* The end (exclusive) of the longest run of characters of the class that
\* starts at position p of s: what a greedy X* consumes from p.
RunEnd(s, p, class) ==
  LET stops == {q \in p..Len(s) : ~In(s[q], class)}
  IN  IF stops = {} THEN (IF p > Len(s) THEN p ELSE Len(s) + 1) ELSE Min(stops)

At(s, p) == IF p >= 1 /\ p <= Len(s) THEN s[p] ELSE ""

\* s has the literal lit at position p
HasAt(s, p, lit) ==
  /\ p >= 1
  /\ p + Len(lit) - 1 <= Len(s)
  /\ SubSeq(s, p, p + Len(lit) - 1) = lit

NoMatch == [ok |-> FALSE, g |-> <<>>]

Match(groups) == [ok |-> TRUE, g |-> groups]

\* ------------------------------------------------------------------------
\* String literals of the source
\* ------------------------------------------------------------------------
KwFunction == <<"f", "u", "n", "c", "t", "i", "o", "n">>

TableOpenA == <<"<", "t", "a", "b", "l", "e", " ", "c", "l", "a", "s", "s", "=", "\"">>

TableOpenB == <<"\"", ">">>

TableClose == <<"<", "/", "t", "a", "b", "l", "e", ">">>

TrOpen == <<"<", "t", "r", ">">>

TrClose == <<"<", "/", "t", "r", ">">>

TdOpen == <<"<", "t", "d", ">">>

TdClose == <<"<", "/", "t", "d", ">">>

CodeOpen == <<"<", "c", "o", "d", "e", ">">>

CodeClose == <<"<", "/", "c", "o", "d", "e", ">">>

SigCls == <<"s", "i", "g">>

SepLit == <<":", ":">>

\* The backquote character, which a string of this language cannot hold;
\* like the character it stands for, it is neither \s nor \w.
Backquote == "bq"

\* ------------------------------------------------------------------------
\* The regular expressions, each computed as the engine computes it
\* ------------------------------------------------------------------------
\* /^\s*\/{2,}\s?(.*)$/
CommentPrefix(line) ==
  LET p == RunEnd(line, 1, IsSpace)
      q == RunEnd(line, p, IsSlash)
      r == IF In(At(line, q), IsSpace) THEN q + 1 ELSE q
  IN  IF q - p >= 2 THEN Match(<<SubSeq(line, r, Len(line))>>) ELSE NoMatch

\* /^\s*([^\s:]+)\s*::(.*)$/
NamedSignature(line) ==
  LET p == RunEnd(line, 1, IsSpace)
      e == RunEnd(line, p, SigNameChar)
      q == RunEnd(line, e, IsSpace)
  IN  IF e > p /\ HasAt(line, q, SepLit)
      THEN Match(<<SubSeq(line, p, e - 1), SubSeq(line, q + 2, Len(line))>>)
      ELSE NoMatch

\* /^::\s*(.*)$/ : the expression without the white space before ::
UnnamedSignatureNoIndent(line) ==
  IF HasAt(line, 1, SepLit)
  THEN Match(<<SubSeq(line, RunEnd(line, 3, IsSpace), Len(line))>>)
  ELSE NoMatch

\* /^\s+::\s*(.*)$/
UnnamedSignature(line) ==
  LET p == RunEnd(line, 1, IsSpace)
      r == RunEnd(line, p + 2, IsSpace)
  IN  IF p > 1 /\ HasAt(line, p, SepLit)
      THEN Match(<<SubSeq(line, r, Len(line))>>)
      ELSE NoMatch

\* /^\s*([\*\+\-])\s*(\S+)\s+\-\s+(.*)$/
ParameterList(line) ==
  LET p == RunEnd(line, 1, IsSpace)
      t == RunEnd(line, p + 1, IsSpace)
      e == RunEnd(line, t, NotSpace)
      w == RunEnd(line, e, IsSpace)
      v == RunEnd(line, w + 1, IsSpace)
  IN  IF /\ At(line, p) \in {"*", "+", "-"}
         /\ e > t
         /\ w > e
         /\ At(line, w) = "-"
         /\ v > w + 1
      THEN Match(<<SubSeq(line, p, p), SubSeq(line, t, e - 1),
                   SubSeq(line, v, Len(line))>>)
      ELSE NoMatch

\* /(#+)$/ where /(#+)/ is meant: the last run of # in the line
HeaderMarkerLastRun(line) ==
  LET hs == {h \in 1..Len(line) :
               In(line[h], IsHash) /\ (h = 1 \/ ~In(line[h - 1], IsHash))}
  IN  IF hs = {} THEN NoMatch
      ELSE LET h == Max(hs)
           IN  Match(<<SubSeq(line, h, RunEnd(line, h, IsHash) - 1)>>)

\* /(#+)/ : the first run of # in the line
HeaderMarker(line) ==
  LET hs == {h \in 1..Len(line) : In(line[h], IsHash)}
  IN  IF hs = {} THEN NoMatch
      ELSE LET h == Min(hs)
           IN  Match(<<SubSeq(line, h, RunEnd(line, h, IsHash) - 1)>>)

\* /^\s*$/
EmptyLine(line) == RunEnd(line, 1, IsSpace) = Len(line) + 1

\* The last ")" at or after position p, 0 when there is none: what the
\* greedy .* of (\(.*\)) backs off to.
LastParen(line, p) ==
  LET cs == {c \in p..Len(line) : line[c] = ")"}
  IN  IF cs = {} THEN 0 ELSE Max(cs)

\* /(\.?[^\.\s=]+)\s*=\W*function(\(.*\))/ tried at start position i
BoundFunctionAt(line, i) ==
  LET s == IF At(line, i) = "." THEN i + 1 ELSE i
      e == RunEnd(line, s, BoundNameChar)
      p == RunEnd(line, e, IsSpace)
      q == RunEnd(line, p + 1, NotWord)
      o == q + Len(KwFunction)
      c == LastParen(line, o + 1)
  IN  IF /\ e > s
         /\ At(line, p) = "="
         /\ HasAt(line, q, KwFunction)
         /\ At(line, o) = "("
         /\ c > 0
      THEN Match(<<SubSeq(line, i, e - 1), SubSeq(line, o, c)>>)
      ELSE NoMatch

\* The leftmost start position at which the expression matches
BoundFunction(line) ==
  LET is == {i \in 1..Len(line) : BoundFunctionAt(line, i).ok}
  IN  IF is = {} THEN NoMatch ELSE BoundFunctionAt(line, Min(is))

\* /function\s+([^\s\(]+)\s*(\(.*\))/ tried at start position i
NamedFunctionAt(line, i) ==
  LET a == i + Len(KwFunction)
      s == RunEnd(line, a, IsSpace)
      e == RunEnd(line, s, FuncNameChar)
      o == RunEnd(line, e, IsSpace)
      c == LastParen(line, o + 1)
  IN  IF /\ HasAt(line, i, KwFunction)
         /\ s > a
         /\ e > s
         /\ At(line, o) = "("
         /\ c > 0
      THEN Match(<<SubSeq(line, s, e - 1), SubSeq(line, o, c)>>)
      ELSE NoMatch

NamedFunction(line) ==
  LET is == {i \in 1..Len(line) : NamedFunctionAt(line, i).ok}
  IN  IF is = {} THEN NoMatch ELSE NamedFunctionAt(line, Min(is))

\* ------------------------------------------------------------------------
\* Aux
\* ------------------------------------------------------------------------
RECURSIVE repeatLoop(_, _, _)
\* for (var i = times; i >= 0; i--) result += str;
repeatLoop(str, i, result) ==
  IF i >= 0 THEN repeatLoop(str, i - 1, result \o str) ELSE result

repeat(str, times) == repeatLoop(str, times, <<>>)

entities(c) ==
  CASE c = "<" -> <<"&", "l", "t", ";">>
    [] c = ">" -> <<"&", "g", "t", ";">>
    [] c = "&" -> <<"&", "a", "m", "p", ";">>
    [] c = "\"" -> <<"&", "q", "u", "o", "t", ";">>
    [] OTHER -> <<c>>

RECURSIVE escapeHtml(_)
escapeHtml(str) ==
  IF str = <<>> THEN <<>> ELSE entities(Head(str)) \o escapeHtml(Tail(str))

RECURSIVE join(_, _)
\* Array.prototype.join
join(arr, sep) ==
  IF arr = <<>> THEN <<>>
  ELSE IF Len(arr) = 1 THEN arr[1]
  ELSE arr[1] \o sep \o join(Tail(arr), sep)

\* the format callback addSig hands to table
sigFormat(cell) == CodeOpen \o cell \o CodeClose

tableCell(cell) == TdOpen \o sigFormat(escapeHtml(cell)) \o TdClose

tableRow(row) ==
  TrOpen \o join([k \in 1..Len(row) |-> tableCell(row[k])], <<>>) \o TrClose

table(data, cls) ==
  TableOpenA \o cls \o TableOpenB
    \o join([k \in 1..Len(data) |-> tableRow(data[k])], <<>>) \o TableClose

\* ------------------------------------------------------------------------
\* Source lines the model is run on
\* ------------------------------------------------------------------------
LBlank == <<>>

LSpace == <<" ">>

LCode == <<"v", "a", "r", " ", "x", " ", "=", " ", "1", ";">>

LBound == <<"f", "o", "o", ".", "b", "a", "r", " ", "=", " ", "f", "u", "n", "c", "t", "i", "o", "n", "(", "x", ",", " ", "y", ")", " ", "{">>

LNamed == <<"f", "u", "n", "c", "t", "i", "o", "n", " ", "b", "a", "z", "(", "a", ")", " ", "{">>

LDoc == <<"/", "/", " ", "d", "o", "c">>

LEmptyDoc == <<"/", "/">>

LNamedSig == <<"/", "/", " ", "n", "a", "m", "e", " ", ":", ":", " ", "T", "y", "p", "e", " ", "-", ">", " ", "T", "y", "p", "e">>

LUnnamedSig == <<"/", "/", " ", " ", ":", ":", " ", "T", "y", "p", "e", "2">>

LBareSig == <<"/", "/", " ", ":", ":", " ", "T", "y", "p", "e", "2">>

LParam == <<"/", "/", " ", "-", " ", "x", " ", "-", " ", "t", "h", "e", " ", "v", "a", "l", "u", "e">>

LHeader == <<"/", "/", "/", " ", "#", "#", " ", "A", "u", "x", " ", "#", "#">>

LHeader3 == <<"/", "/", " ", "#", "#", "#", " ", "S", "u", "b", " ", "#">>

LHashSig == <<"/", "/", " ", "a", " ", ":", ":", " ", "#", "T">>

LHashParam == <<"/", "/", " ", "-", " ", "#", "x", " ", "-", " ", "v">>

\* the lines of the general specification
CoreLines == {LBlank, LCode, LBound, LNamed, LDoc, LNamedSig, LHeader}

\* the lines of the specification about type signatures
SigLines ==
  {LBlank, LSpace, LCode, LDoc, LNamedSig, LUnnamedSig, LBareSig, LParam}

\* the lines of the specification about blank lines and separators
BlankLines == {LBlank, LSpace, LCode, LNamed, LDoc, LEmptyDoc, LUnnamedSig}

\* the lines of the specification about header depth
DepthLines == {LCode, LNamed, LDoc, LHeader, LHeader3, LHashSig, LHashParam}

\* program.split(/(?:\r\n|\r|\n)/g) yields at least one line
Programs(lines) == UNION {[1..n -> lines] : n \in 1..MaxLines}

\* ------------------------------------------------------------------------
\* The state of untangle
\* ------------------------------------------------------------------------
VARIABLES program, pos, pc, run, inBlock, sig, block, text, depth, ret,
          firstRun

vars == <<program, pos, pc, run, inBlock, sig, block, text, depth, ret,
          firstRun>>

\* block is an array or undefined
Array(elems) == [defined |-> TRUE, elems |-> elems]

Undefined == [defined |-> FALSE, elems |-> <<>>]

\* the variables shared by the nested functions of untangle; thrown records
\* a TypeError raised by a method call on undefined
Locals ==
  [inBlock |-> inBlock, sig |-> sig, block |-> block, text |-> text,
   depth |-> depth, thrown |-> FALSE]

\* var inBlock = true, sig = [], block = [], text = [], depth = 1
FreshLocals ==
  [inBlock |-> TRUE, sig |-> <<>>, block |-> Array(<<>>), text |-> <<>>,
   depth |-> 1, thrown |-> FALSE]

\* if (line) block.push(line) where block.push(line) is meant
blockPushSkipsEmpty(L, line) ==
  IF ~L.block.defined THEN [L EXCEPT !.thrown = TRUE]
  ELSE IF line = <<>> THEN L
  ELSE [L EXCEPT !.block = Array(Append(L.block.elems, line))]

\* block.push(line)
blockPush(L, line) ==
  IF L.block.defined
  THEN [L EXCEPT !.block = Array(Append(L.block.elems, line))]
  ELSE [L EXCEPT !.thrown = TRUE]

\* block.push(line) where block.unshift(line) is meant
blockUnshiftAtEnd(L, line) ==
  IF L.block.defined
  THEN [L EXCEPT !.block = Array(Append(L.block.elems, line))]
  ELSE [L EXCEPT !.thrown = TRUE]

\* block.unshift(line)
blockUnshift(L, line) ==
  IF L.block.defined
  THEN [L EXCEPT !.block = Array(<<line>> \o L.block.elems)]
  ELSE [L EXCEPT !.thrown = TRUE]

addSig(L) ==
  IF Len(L.sig) > 0
  THEN LET L1 == blockPush(L, table(L.sig, SigCls))
       IN  IF L1.thrown THEN L1 ELSE [L1 EXCEPT !.sig = <<>>]
  ELSE L

\* line = $m[1] + " q" + $m[2] + "q " + $m[3], q the backquote character
paramLine(m) ==
  m.g[1] \o <<" ", Backquote>> \o m.g[2] \o <<Backquote, " ">> \o m.g[3]

addLine(L, line) ==
  LET n  == NamedSignature(line)
      u  == UnnamedSignature(line)
      L1 == IF Len(L.sig) > 0 THEN addSig(L) ELSE L
      p  == ParameterList(line)
      h  == HeaderMarker(line)
      l2 == IF p.ok THEN paramLine(p) ELSE line
      L2 == IF ~p.ok /\ h.ok THEN [L1 EXCEPT !.depth = Len(h.g[1])] ELSE L1
  IN  IF n.ok THEN [L EXCEPT !.sig = Append(@, <<n.g[1], SepLit, n.g[2]>>)]
      ELSE IF u.ok THEN [L EXCEPT !.sig = Append(@, <<<<>>, SepLit, u.g[1]>>)]
      ELSE IF L1.thrown THEN L1
      ELSE blockPush(L2, l2)

\* startBlock without its call of addLine
startBlockDropsLine(L, line) == [L EXCEPT !.block = Array(<<>>)]

startBlock(L, line) == addLine([L EXCEPT !.block = Array(<<>>)], line)

\* addBlock without its call of addSig
addBlockSkipsSig(L) ==
  LET L1 == IF Len(L.text) > 0 THEN [L EXCEPT !.text = Append(@, <<>>)] ELSE L
  IN  IF ~L1.block.defined THEN [L1 EXCEPT !.thrown = TRUE]
      ELSE [L1 EXCEPT !.text = @ \o L1.block.elems]

\* addBlock without its test of text.length
addBlockAlwaysSeparates(L) ==
  LET L1 == [L EXCEPT !.text = Append(@, <<>>)]
      L2 == IF Len(L1.sig) > 0
            THEN [L1 EXCEPT !.block = Array(Append(L1.block.elems,
                                                   table(L1.sig, SigCls))),
                            !.sig = <<>>]
            ELSE L1
  IN  IF ~L2.block.defined THEN [L2 EXCEPT !.thrown = TRUE]
      ELSE [L2 EXCEPT !.text = @ \o L2.block.elems]

addBlock(L) ==
  LET L1 == IF Len(L.text) > 0 THEN [L EXCEPT !.text = Append(@, <<>>)] ELSE L
      L2 == addSig(L1)
  IN  IF L2.thrown THEN L2
      ELSE IF ~L2.block.defined THEN [L2 EXCEPT !.thrown = TRUE]
      ELSE [L2 EXCEPT !.text = @ \o L2.block.elems]

\* repeat("#", depth + 1) + " " + $m[1] + $m[2]
headerLine(L, m) == repeat(<<"#">>, L.depth + 1) \o <<" ">> \o m.g[1] \o m.g[2]

\* endBlock that adds the block whatever the line is
endBlockAlwaysFlushes(L, line) ==
  LET L1 == addBlock(L)
  IN  IF L1.thrown THEN L1 ELSE [L1 EXCEPT !.block = Undefined]

endBlock(L, line) ==
  LET b  == BoundFunction(line)
      f  == NamedFunction(line)
      withHeader(m) == LET L0 == blockUnshift(L, headerLine(L, m))
                       IN  IF L0.thrown THEN L0 ELSE addBlock(L0)
      L1 == IF EmptyLine(line) THEN addBlock(L)
            ELSE IF b.ok THEN withHeader(b)
            ELSE IF f.ok THEN withHeader(f)
            ELSE L
  IN  IF L1.thrown THEN L1 ELSE [L1 EXCEPT !.block = Undefined]

\* the callback of program.split(...).forEach
lineCallback(L, line) ==
  LET probe == CommentPrefix(line)
  IN  IF probe.ok
      THEN IF ~L.inBlock
           THEN startBlock([L EXCEPT !.inBlock = TRUE, !.block = Array(<<>>)],
                           probe.g[1])
           ELSE addLine(L, probe.g[1])
      ELSE IF L.inBlock
           THEN LET L1 == endBlock(L, line)
                IN  IF L1.thrown THEN L1 ELSE [L1 EXCEPT !.inBlock = FALSE]
           ELSE L

RECURSIVE forEach(_, _)
forEach(L, lines) ==
  IF lines = <<>> \/ L.thrown THEN L
  ELSE forEach(lineCallback(L, Head(lines)), Tail(lines))

\* untangle without its final endBlock('')
atEndNoFlush(L) == L

\* if (inBlock) endBlock('');
atEnd(L) == IF L.inBlock /\ ~L.thrown THEN endBlock(L, <<>>) ELSE L

\* return text.join('\n');
document(L) == join(L.text, <<"\n">>)

\* the locals of an invocation if sig were declared outside untangle
EnterUntangleKeepsSig == [FreshLocals EXCEPT !.sig = sig]

\* the locals with which one invocation begins
EnterUntangle == FreshLocals

\* untangle as a function of its input: the locals when it returns
untangle(prog) == atEnd(forEach(FreshLocals, prog))

\* ------------------------------------------------------------------------
\* The untangle of src/unnamed/part_000. Its regular expressions and its
\* repeat, table and escapeHtml read as those of src/bin/untangle.js, so
\* the operators above stand for them.
\* ------------------------------------------------------------------------
\* ' :: '
SepLitPadded == <<" ", ":", ":", " ">>

addSig2(L) ==
  IF Len(L.sig) > 0
  THEN LET L1 == blockPush(L, table(L.sig, SigCls))
       IN  IF L1.thrown THEN L1 ELSE [L1 EXCEPT !.sig = <<>>]
  ELSE L

addLine2(L, line) ==
  LET n  == NamedSignature(line)
      u  == UnnamedSignature(line)
      L1 == IF Len(L.sig) > 0 THEN addSig2(L) ELSE L
      p  == ParameterList(line)
      h  == HeaderMarker(line)
      l2 == IF p.ok THEN paramLine(p) ELSE line
      L2 == IF ~p.ok /\ h.ok THEN [L1 EXCEPT !.depth = Len(h.g[1])] ELSE L1
  IN  IF n.ok
      THEN [L EXCEPT !.sig = Append(@, <<n.g[1], SepLitPadded, n.g[2]>>)]
      ELSE IF u.ok
      THEN [L EXCEPT !.sig = Append(@, <<<<>>, SepLitPadded, u.g[1]>>)]
      ELSE IF L1.thrown THEN L1
      ELSE blockPush(L2, l2)

startBlock2(L, line) == addLine2([L EXCEPT !.block = Array(<<>>)], line)

addBlock2(L) ==
  LET L1 == IF Len(L.text) > 0 THEN [L EXCEPT !.text = Append(@, <<>>)] ELSE L
      L2 == addSig2(L1)
  IN  IF L2.thrown THEN L2
      ELSE IF ~L2.block.defined THEN [L2 EXCEPT !.thrown = TRUE]
      ELSE [L2 EXCEPT !.text = @ \o L2.block.elems]

\* endBlock of part_000 if it put the header after the lines of the block
endBlock2HeaderLast(L, line) ==
  LET b  == BoundFunction(line)
      f  == NamedFunction(line)
      withHeader(m) == LET L0 == blockUnshiftAtEnd(L, headerLine(L, m))
                       IN  IF L0.thrown THEN L0 ELSE addBlock2(L0)
      L1 == IF EmptyLine(line) THEN addBlock2(L)
            ELSE IF b.ok THEN withHeader(b)
            ELSE IF f.ok THEN withHeader(f)
            ELSE L
  IN  IF L1.thrown THEN L1 ELSE [L1 EXCEPT !.block = Undefined]

endBlock2(L, line) ==
  LET b  == BoundFunction(line)
      f  == NamedFunction(line)
      withHeader(m) == LET L0 == blockUnshift(L, headerLine(L, m))
                       IN  IF L0.thrown THEN L0 ELSE addBlock2(L0)
      L1 == IF EmptyLine(line) THEN addBlock2(L)
            ELSE IF b.ok THEN withHeader(b)
            ELSE IF f.ok THEN withHeader(f)
            ELSE L
  IN  IF L1.thrown THEN L1 ELSE [L1 EXCEPT !.block = Undefined]

\* the callback of program.split(...).forEach
lineCallback2(L, line) ==
  LET probe == CommentPrefix(line)
  IN  IF probe.ok
      THEN IF ~L.inBlock
           THEN startBlock2([L EXCEPT !.inBlock = TRUE, !.block = Array(<<>>)],
                            probe.g[1])
           ELSE addLine2(L, probe.g[1])
      ELSE IF L.inBlock
           THEN LET L1 == endBlock2(L, line)
                IN  IF L1.thrown THEN L1 ELSE [L1 EXCEPT !.inBlock = FALSE]
           ELSE L

RECURSIVE forEach2(_, _)
forEach2(L, lines) ==
  IF lines = <<>> \/ L.thrown THEN L
  ELSE forEach2(lineCallback2(L, Head(lines)), Tail(lines))

\* if (inBlock) endBlock('');
atEnd2(L) == IF L.inBlock /\ ~L.thrown THEN endBlock2(L, <<>>) ELSE L

\* untangle of part_000 as a function of its input
untangle2(prog) == atEnd2(forEach2(FreshLocals, prog))

\* ------------------------------------------------------------------------
\* Actions
\* ------------------------------------------------------------------------
Store(L) ==
  /\ inBlock' = L.inBlock
  /\ sig' = L.sig
  /\ block' = L.block
  /\ text' = L.text
  /\ depth' = L.depth

Snapshot(L) ==
  [inBlock |-> L.inBlock, sig |-> L.sig, block |-> L.block, text |-> L.text,
   depth |-> L.depth]

\* the states the first invocation went through, by position
Record(L) ==
  firstRun' = IF run = 1 THEN Append(firstRun, Snapshot(L)) ELSE firstRun

InitOver(lines) ==
  /\ program \in Programs(lines)
  /\ pos = 1
  /\ pc = "loop"
  /\ run = 1
  /\ inBlock = FreshLocals.inBlock
  /\ sig = FreshLocals.sig
  /\ block = FreshLocals.block
  /\ text = FreshLocals.text
  /\ depth = FreshLocals.depth
  /\ ret = <<>>
  /\ firstRun = <<Snapshot(FreshLocals)>>

Init == InitOver(CoreLines)

InitSig == InitOver(SigLines)

InitBlank == InitOver(BlankLines)

InitDepth == InitOver(DepthLines)

InLoop == pc = "loop" /\ pos <= Len(program)

Probe == CommentPrefix(program[pos])

\* the end of one call of the forEach callback that leaves the locals L
Advance(L) ==
  /\ Store(L)
  /\ Record(L)
  /\ pos' = pos + 1
  /\ pc' = IF L.thrown THEN "threw" ELSE "loop"
  /\ UNCHANGED <<program, run, ret>>

\* the callback without its inBlock = false after endBlock(line)
leaveBlockStaysIn(L) == L

\* inBlock = false after endBlock(line), unless endBlock threw
leaveBlock(L) == IF L.thrown THEN L ELSE [L EXCEPT !.inBlock = FALSE]

\* a comment line outside a block
CommentStartsBlock ==
  /\ InLoop
  /\ Probe.ok
  /\ ~inBlock
  /\ Advance(startBlock([Locals EXCEPT !.inBlock = TRUE,
                                       !.block = Array(<<>>)], Probe.g[1]))

\* a comment line inside a block
CommentContinuesBlock ==
  /\ InLoop
  /\ Probe.ok
  /\ inBlock
  /\ Advance(addLine(Locals, Probe.g[1]))

\* a line that is not a comment, after a block
CodeEndsBlock ==
  /\ InLoop
  /\ ~Probe.ok
  /\ inBlock
  /\ Advance(leaveBlock(endBlock(Locals, program[pos])))

\* a line that is not a comment, outside a block
CodeSkipped ==
  /\ InLoop
  /\ ~Probe.ok
  /\ ~inBlock
  /\ Advance(Locals)

\* if (inBlock) endBlock(''); return text.join('\n');
Return ==
  /\ pc = "loop"
  /\ pos = Len(program) + 1
  /\ LET L == atEnd(Locals)
     IN  /\ Store(L)
         /\ pc' = IF L.thrown THEN "threw" ELSE "returned"
         /\ ret' = IF L.thrown THEN ret ELSE document(L)
  /\ UNCHANGED <<program, pos, run, firstRun>>

\* untangle is called again on the same program
CallAgain ==
  /\ pc = "returned"
  /\ run < MaxRuns
  /\ run' = run + 1
  /\ pos' = 1
  /\ pc' = "loop"
  /\ Store(EnterUntangle)
  /\ UNCHANGED <<program, ret, firstRun>>

Next ==
  \/ CommentStartsBlock
  \/ CommentContinuesBlock
  \/ CodeEndsBlock
  \/ CodeSkipped
  \/ Return
  \/ CallAgain

Spec == Init /\ [][Next]_vars

SpecSig == InitSig /\ [][Next]_vars

SpecBlank == InitBlank /\ [][Next]_vars

SpecDepth == InitDepth /\ [][Next]_vars

\* ------------------------------------------------------------------------
\* Vocabulary of the properties
\* ------------------------------------------------------------------------
IsComment(line) == CommentPrefix(line).ok

Body(line) == CommentPrefix(line).g[1]

IsSignature(body) == NamedSignature(body).ok \/ UnnamedSignature(body).ok

IsFunctionLine(line) ==
  ~EmptyLine(line) /\ (BoundFunction(line).ok \/ NamedFunction(line).ok)

\* the match endBlock uses for the synthesized header
FunctionMatch(line) ==
  IF BoundFunction(line).ok THEN BoundFunction(line) ELSE NamedFunction(line)

\* a line that ends a block without flushing it
IsOtherCode(line) ==
  ~IsComment(line) /\ ~EmptyLine(line) /\ ~IsFunctionLine(line)

\* the step at hand ends a block with the line at pos
EndsBlock == InLoop /\ ~Probe.ok /\ inBlock

BlankEnds == EndsBlock /\ EmptyLine(program[pos])

FunctionEnds == EndsBlock /\ IsFunctionLine(program[pos])

\* the separator a flush adds to the Document as it is before the flush
Separator == IF Len(text) > 0 THEN << <<>> >> ELSE <<>>

\* the table of the pending signature entries, as a list of Block lines
PendingTable == IF Len(sig) > 0 THEN <<table(sig, SigCls)>> ELSE <<>>

\* the number of # a line starts with
LeadingHashes(line) == RunEnd(line, 1, IsHash) - 1

\* a line without the # it starts with and the spaces after them
AfterMarkers(line) ==
  SubSeq(line, RunEnd(line, RunEnd(line, 1, IsHash), IsSpace), Len(line))

IsTable(line) == HasAt(line, 1, TableOpenA)

NoComments(prog) == \A i \in 1..Len(prog) : ~IsComment(prog[i])

\* the blocks of prog that a line of other code ends: <<first, last>>
DiscardedBlocks(prog) ==
  {ij \in (1..Len(prog)) \X (1..Len(prog)) :
     /\ ij[1] <= ij[2]
     /\ \A k \in ij[1]..ij[2] : IsComment(prog[k])
     /\ (ij[1] = 1 \/ ~IsComment(prog[ij[1] - 1]))
     /\ ij[2] < Len(prog)
     /\ IsOtherCode(prog[ij[2] + 1])}

\* prog without its lines i..j
Without(prog, i, j) == SubSeq(prog, 1, i - 1) \o SubSeq(prog, j + 1, Len(prog))

\* ------------------------------------------------------------------------
\* C1
\* ------------------------------------------------------------------------
\* every step of the loop is one call of the forEach callback
StepsAreCallbacks ==
  [][InLoop => Snapshot(Locals)' = Snapshot(lineCallback(Locals, program[pos]))]_vars

\* C1: when untangle returns on a program in which no line matches the
\* comment-prefix pattern, the Document it returns is empty.
C1_NoCommentsEmptyDocument ==
  (pc = "returned" /\ NoComments(program)) => (text = <<>> /\ ret = <<>>)

\* ------------------------------------------------------------------------
\* C2
\* ------------------------------------------------------------------------
\* C2: a comment block ended by a line of other code contributes nothing to
\* the Document: the Document returned is the one returned for the program
\* without the comment lines of that block.
C2_DiscardedBlockLeavesNoTrace ==
  (pc = "returned" /\ run = 1) =>
    \A ij \in DiscardedBlocks(program) :
      ret = document(untangle(Without(program, ij[1], ij[2])))

\* ------------------------------------------------------------------------
\* C3
\* ------------------------------------------------------------------------
\* the place in the Document of the first line of the Block being flushed
FirstFlushed == Len(text) + Len(Separator) + 1

\* C3: when a bound-function or named-function line ends a block, the
\* synthesized header starts with exactly Depth + 1 characters #.
C3_HeaderHasDepthPlusOneMarkers ==
  [][(FunctionEnds /\ pos > 1) =>
       LeadingHashes(text'[FirstFlushed]) = depth + 1]_vars

\* ------------------------------------------------------------------------
\* C4
\* ------------------------------------------------------------------------
\* the first line of the run of comment lines that ends before pos
BlockFirst ==
  Min({i \in 1..pos : \A k \in i..(pos - 1) : IsComment(program[k])})

\* the comment bodies of the block being accumulated, in source order
BlockBodies ==
  [k \in 1..(pos - BlockFirst) |-> Body(program[BlockFirst + k - 1])]

NotSignature(body) == ~IsSignature(body)

NotTable(line) == ~IsTable(line)

\* what the transformer makes of a body that is no type signature
Transformed(body) ==
  IF ParameterList(body).ok
  THEN LET m == ParameterList(body)
       IN  m.g[1] \o <<" ", Backquote>> \o m.g[2] \o <<Backquote, " ">> \o m.g[3]
  ELSE body

ExpectedLines ==
  LET kept == SelectSeq(BlockBodies, NotSignature)
  IN  [k \in 1..Len(kept) |-> Transformed(kept[k])]

\* C4: when a blank or whitespace-only line ends a block, the Document is
\* extended by the separator (if it was not empty), the lines of the Block
\* and the table of the pending signatures, in that order; the lines added
\* that are no signature table are exactly the transformed comment lines of
\* the block in source order, so no synthesized header is among them.
C4_BlankLineFlushesBlockVerbatim ==
  [][BlankEnds =>
       /\ text' = text \o Separator \o block.elems \o PendingTable
       /\ SelectSeq(SubSeq(text', FirstFlushed, Len(text')), NotTable)
            = ExpectedLines]_vars

\* a block of a parameter bullet and a signature line has been flushed by a
\* whitespace-only line
C4_Witness ==
  /\ pc = "loop"
  /\ run = 1
  /\ pos = 4
  /\ program[1] = LParam
  /\ program[2] = LNamedSig
  /\ program[3] = LSpace
  /\ Len(text) = 2
  /\ IsTable(text[2])

\* ------------------------------------------------------------------------
\* C5
\* ------------------------------------------------------------------------
\* the input is exhausted with a block still open
EndOfInputEnds == pc = "loop" /\ pos = Len(program) + 1 /\ inBlock

Flushes == BlankEnds \/ FunctionEnds \/ EndOfInputEnds

\* the number of lines of the Block when it is flushed
FlushedSize ==
  Len(block.elems) + Len(PendingTable) + (IF FunctionEnds THEN 1 ELSE 0)

\* C5: a flush leaves the lines already in the Document in place, adds
\* exactly one blank separator line when the Document already holds the
\* lines of an earlier Block and none when it is empty, and then the lines
\* of the Block; no other step of a run changes the Document.
C5_OneSeparatorBetweenBlocks ==
  [][pc = "loop" =>
       IF Flushes
       THEN /\ Len(text') = Len(text) + Len(Separator) + FlushedSize
            /\ SubSeq(text', 1, Len(text)) = text
            /\ (text # <<>> => text'[Len(text) + 1] = <<>>)
            /\ SubSeq(text', Len(text') - Len(block.elems) - Len(PendingTable) + 1,
                      Len(text')) = block.elems \o PendingTable
       ELSE text' = text]_vars

\* two blocks have been flushed, one line each
C5_Witness ==
  /\ pc = "returned"
  /\ run = 1
  /\ Len(text) = 3
  /\ text[1] # <<>>
  /\ text[2] = <<>>
  /\ text[3] # <<>>
  /\ IsComment(program[1])
  /\ EmptyLine(program[2])
  /\ IsComment(program[3])

\* ------------------------------------------------------------------------
\* C6
\* ------------------------------------------------------------------------
FooBarHeader == <<"f", "o", "o", ".", "b", "a", "r", "(", "x", ",", " ", "y", ")">>

DotBarHeader == <<".", "b", "a", "r", "(", "x", ",", " ", "y", ")">>

BoundEnds == EndsBlock /\ pos > 1 /\ program[pos] = LBound

\* C6 as claimed: when the line foo.bar = function(x, y) { ends a comment
\* block, the synthesized header reads foo.bar(x, y) after its markers.
C6_HeaderReadsFullDottedName ==
  [][BoundEnds => AfterMarkers(text'[FirstFlushed]) = FooBarHeader]_vars

\* C6 as amended: when the line foo.bar = function(x, y) { ends a comment
\* block, the synthesized header reads .bar(x, y) after its markers: the
\* captured name is the last component of the dotted name with its dot.
C6_HeaderReadsLastComponent ==
  [][BoundEnds =>
       /\ LeadingHashes(text'[FirstFlushed]) >= 1
       /\ AfterMarkers(text'[FirstFlushed]) = DotBarHeader]_vars

C6_Witness ==
  /\ pc = "loop"
  /\ run = 1
  /\ pos = 3
  /\ program[1] = LDoc
  /\ program[2] = LBound
  /\ Len(text) = 2
  /\ text[2] = Body(LDoc)

\* ------------------------------------------------------------------------
\* C7
\* ------------------------------------------------------------------------
BazHeader == <<"b", "a", "z", "(", "a", ")">>

\* C7: when a bound-function or named-function line ends a block, the first
\* line the flush adds after the separator is the synthesized header (its
\* markers, then the captured name and parameter list: baz(a) for the line
\* function baz(a) {), and the lines after it are the lines of the Block
\* followed by the table of the pending signatures.
C7_HeaderIsFirstLineOfBlock ==
  [][FunctionEnds =>
       LET m == FunctionMatch(program[pos])
           header == text'[FirstFlushed]
       IN  /\ LeadingHashes(header) >= 1
           /\ AfterMarkers(header) = m.g[1] \o m.g[2]
           /\ (program[pos] = LNamed => AfterMarkers(header) = BazHeader)
           /\ SubSeq(text', FirstFlushed + 1, Len(text'))
                = block.elems \o PendingTable]_vars

\* a block with a body line and a pending signature has been ended by the
\* line function baz(a) {
C7_Witness ==
  /\ pc = "loop"
  /\ run = 1
  /\ pos = 4
  /\ program[1] = LDoc
  /\ program[2] = LNamedSig
  /\ program[3] = LNamed
  /\ Len(text) = 3
  /\ AfterMarkers(text[1]) = BazHeader
  /\ text[2] = Body(LDoc)
  /\ IsTable(text[3])

\* ------------------------------------------------------------------------
\* C8
\* ------------------------------------------------------------------------
\* the entry of the body  name :: Type -> Type
EntryNamed ==
  <<<<"n", "a", "m", "e">>, <<":", ":">>,
    <<" ", "T", "y", "p", "e", " ", "-", ">", " ", "T", "y", "p", "e">>>>

\* the entry of an unnamed signature of type Type2
EntryUnnamed == <<<<>>, <<":", ":">>, <<"T", "y", "p", "e", "2">>>>

\* the rows of the two entries as the table renders them
RowNamed ==
  <<"<", "t", "r", ">", "<", "t", "d", ">", "<", "c", "o", "d", "e", ">",
    "n", "a", "m", "e", "<", "/", "c", "o", "d", "e", ">", "<", "/", "t",
    "d", ">", "<", "t", "d", ">", "<", "c", "o", "d", "e", ">", ":", ":",
    "<", "/", "c", "o", "d", "e", ">", "<", "/", "t", "d", ">", "<", "t",
    "d", ">", "<", "c", "o", "d", "e", ">", " ", "T", "y", "p", "e", " ",
    "-", "&", "g", "t", ";", " ", "T", "y", "p", "e", "<", "/", "c", "o",
    "d", "e", ">", "<", "/", "t", "d", ">", "<", "/", "t", "r", ">">>

RowUnnamed ==
  <<"<", "t", "r", ">", "<", "t", "d", ">", "<", "c", "o", "d", "e", ">",
    "<", "/", "c", "o", "d", "e", ">", "<", "/", "t", "d", ">", "<", "t",
    "d", ">", "<", "c", "o", "d", "e", ">", ":", ":", "<", "/", "c", "o",
    "d", "e", ">", "<", "/", "t", "d", ">", "<", "t", "d", ">", "<", "c",
    "o", "d", "e", ">", "T", "y", "p", "e", "2", "<", "/", "c", "o", "d",
    "e", ">", "<", "/", "t", "d", ">", "<", "/", "t", "r", ">">>

\* sig ends with the two entries, in that order
PairCaptured ==
  /\ Len(sig) >= 2
  /\ sig[Len(sig) - 1] = EntryNamed
  /\ sig[Len(sig)] = EntryUnnamed

EndsWith(s, suffix) ==
  /\ Len(s) >= Len(suffix)
  /\ SubSeq(s, Len(s) - Len(suffix) + 1, Len(s)) = suffix

\* a rendered table whose last two rows are the rows of the two entries
PairTable(line) ==
  IsTable(line) /\ EndsWith(line, RowNamed \o RowUnnamed \o TableClose)

\* the two lines before pos are the comment lines with the bodies
\* "name :: Type -> Type" and ":: Type2"
AfterBarePair ==
  /\ pc = "loop"
  /\ pos >= 3
  /\ program[pos - 2] = LNamedSig
  /\ program[pos - 1] = LBareSig

\* the two lines before pos are the comment lines with the bodies
\* "name :: Type -> Type" and " :: Type2"
AfterIndentedPair ==
  /\ pc = "loop"
  /\ pos >= 3
  /\ program[pos - 2] = LNamedSig
  /\ program[pos - 1] = LUnnamedSig

NextIsSignature ==
  InLoop /\ IsComment(program[pos]) /\ IsSignature(Body(program[pos]))

NextIsPlainComment ==
  InLoop /\ IsComment(program[pos]) /\ ~IsSignature(Body(program[pos]))

EntryOf(body) ==
  IF NamedSignature(body).ok
  THEN <<NamedSignature(body).g[1], <<":", ":">>, NamedSignature(body).g[2]>>
  ELSE <<<<>>, <<":", ":">>, UnnamedSignature(body).g[1]>>

\* the first line of the longest run of type-signature comment lines that
\* ends right before pos in the block being accumulated
SigRunFirst ==
  IF ~inBlock THEN pos
  ELSE Min({i \in 1..pos :
              \A k \in i..(pos - 1) :
                IsComment(program[k]) /\ IsSignature(Body(program[k]))})

SigRunEntries ==
  [k \in 1..(pos - SigRunFirst) |-> EntryOf(Body(program[SigRunFirst + k - 1]))]

\* the step at hand adds a signature table to the Block
AddsTable ==
  /\ pc = "loop"
  /\ Len(sig) > 0
  /\ NextIsPlainComment \/ Flushes

\* C9: a signature table added to a Block has exactly the entries of the
\* longest run of type-signature comment lines right before it in that
\* Block, in order, and the SignatureTable is empty after it is added.
C9_TableHoldsExactlyPrecedingRun ==
  [][AddsTable => (sig = SigRunEntries /\ sig' = <<>>)]_vars

C11_BlockUndefinedOnlyOutOfBlock == ~block.defined => ~inBlock

\* C11: no step of untangle throws; every line of the input has a step and
\* after the last one a Document is returned; block is an array whenever a
\* line is about to be processed inside a block, so it is undefined only
\* outside a block or once the final endBlock at the end of the input has
\* run.
C11_ParserNeverFails ==
  /\ pc # "threw"
  /\ pc = "loop" => pos \in 1..(Len(program) + 1)
  /\ (pc = "loop" /\ inBlock) => block.defined
  /\ ~block.defined => (~inBlock \/ pc = "returned")
  /\ pc = "returned" => ret = join(text, <<"\n">>)

\* a block has been discarded, a later one has been given a synthesized
\* header, and the Document has been returned
C11_Witness ==
  /\ pc = "returned"
  /\ run = 1
  /\ program = <<LDoc, LCode, LDoc, LBound>>
  /\ Len(text) = 2
  /\ ~inBlock
  /\ ~block.defined

\* ------------------------------------------------------------------------
\* C12
\* ------------------------------------------------------------------------
\* C12: when the input is exhausted inside a block, the step that returns
\* adds to the Document the separator, the lines of the Block and the table
\* of the pending signatures, and the Document returned is the one returned
\* for the same input followed by a blank line.
C12_EndOfInputFlushesLikeBlankLine ==
  [][EndOfInputEnds =>
       /\ pc' = "returned"
       /\ text' = text \o Separator \o block.elems \o PendingTable
       /\ ret' = join(text', <<"\n">>)
       /\ ret' = document(untangle(Append(program, LBlank)))]_vars

\* a comment line and a signature line that end the input are in the
\* Document returned, the signature as a table
C12_Witness ==
  /\ pc = "returned"
  /\ run = 1
  /\ program = <<LDoc, LBlank, LDoc, LNamedSig>>
  /\ Len(text) = 4
  /\ IsTable(text[4])

\* ------------------------------------------------------------------------
\* C13
\* ------------------------------------------------------------------------
\* the Block after a line with the given body has been fed into an empty one
FedIntoEmpty(body) ==
  IF IsSignature(body) THEN <<>> ELSE PendingTable \o <<Transformed(body)>>

\* C13: outside a block, a line that is not a comment changes none of
\* inBlock, block, text, depth and sig; a comment line sets inBlock and
\* leaves in block what feeding its body into an empty block yields (the
\* table of pending signatures, if any, and the transformed body), and
\* leaves text unchanged.
C13_OutOfBlockSteps ==
  [][(InLoop /\ ~inBlock) =>
       IF Probe.ok
       THEN /\ inBlock'
            /\ block' = Array(FedIntoEmpty(Probe.g[1]))
            /\ text' = text
       ELSE UNCHANGED <<inBlock, block, text, depth, sig>>]_vars

\* after a flushed block, a line of code has been skipped and a comment
\* line has started a new block that holds that line only
C13_Witness ==
  /\ pc = "loop"
  /\ run = 1
  /\ pos = 5
  /\ program = <<LDoc, LBlank, LCode, LDoc>>
  /\ inBlock
  /\ block = Array(<<Body(LDoc)>>)
  /\ Len(text) = 1

\* ------------------------------------------------------------------------
\* C14
\* ------------------------------------------------------------------------
HasHash(body) == \E k \in 1..Len(body) : body[k] = "#"

\* the length of the first run of # in a body that has one
FirstHashRun(body) ==
  LET h == Min({k \in 1..Len(body) : body[k] = "#"})
  IN  RunEnd(body, h, IsHash) - h

\* a comment line with a # that is no type signature and no parameter bullet
SetsDepth(line) ==
  /\ IsComment(line)
  /\ HasHash(Body(line))
  /\ ~IsSignature(Body(line))
  /\ ~ParameterList(Body(line)).ok

\* the depth the lines before pos call for
ExpectedDepth ==
  LET ks == {k \in 1..(pos - 1) : SetsDepth(program[k])}
  IN  IF ks = {} THEN 1 ELSE FirstHashRun(Body(program[Max(ks)]))

\* C14: after any number of lines, depth is the length of the first run of
\* # in the latest comment line so far that has a # and is neither a type
\* signature nor a parameter bullet, and 1 if there is no such line; depth
\* is at least 1; a line that is no comment and the end of the input, which
\* end a block if one is open, leave depth as it was before them.
C14_DepthFollowsLatestHeader ==
  /\ depth = ExpectedDepth
  /\ depth >= 1
  /\ (pc = "loop" /\ pos > 1 /\ ~IsComment(program[pos - 1]))
       => depth = firstRun[pos - 1].depth
  /\ pc = "returned" => depth = firstRun[Len(program) + 1].depth

\* a header with a first run of three # has set depth; a signature and a
\* parameter bullet with # and the end of the block have left it at 3
C14_Witness ==
  /\ pc = "loop"
  /\ run = 1
  /\ pos = 5
  /\ program = <<LHeader3, LHashSig, LHashParam, LCode>>
  /\ depth = 3
  /\ ~inBlock

\* ------------------------------------------------------------------------
\* C15
\* ------------------------------------------------------------------------
\* C15 as stated: after a step that ends a block, at a line or at the end
\* of the input, inBlock is false.
C15_EveryTerminationLeavesOutOfBlock ==
  [][(EndsBlock \/ EndOfInputEnds) => ~inBlock']_vars

\* the header a function line adds in front of the Block
SynthesizedHeader ==
  IF FunctionEnds
  THEN <<headerLine(Locals, FunctionMatch(program[pos]))>>
  ELSE <<>>

\* C15: a block stays open over comment lines and is ended by the first
\* line after it that is no comment, or by the end of the input. A blank or
\* function line and the end of the input add the Block to the Document
\* once, any other line leaves the Document as it is. A line that ends a
\* block leaves inBlock false and block undefined, so no later line ends it
\* again; the end of the input leaves inBlock true. No step of a run
\* changes or removes a line the Document holds.
C15_BlockEndsOnce ==
  [][pc = "loop" =>
       /\ SubSeq(text', 1, Len(text)) = text
       /\ IF EndsBlock
          THEN /\ ~inBlock'
               /\ ~block'.defined
               /\ text' = IF BlankEnds \/ FunctionEnds
                          THEN text \o Separator \o SynthesizedHeader
                                 \o block.elems \o PendingTable
                          ELSE text
          ELSE IF EndOfInputEnds
          THEN /\ pc' = "returned"
               /\ inBlock'
               /\ ~block'.defined
               /\ text' = text \o Separator \o block.elems \o PendingTable
          ELSE /\ text' = text
               /\ (InLoop /\ Probe.ok) => (inBlock' /\ block'.defined)
               /\ (InLoop /\ ~Probe.ok) => (~inBlock' /\ ~block'.defined)]_vars

\* a block has been discarded by a line of code and a later one has been
\* added to the Document at the end of the input, which left inBlock true
C15_Witness ==
  /\ pc = "returned"
  /\ run = 1
  /\ program = <<LDoc, LCode, LDoc>>
  /\ text = <<Body(LDoc)>>
  /\ inBlock
  /\ ~block.defined

\* ------------------------------------------------------------------------
\* C16
\* ------------------------------------------------------------------------
\* C16: when a step adds a Block to a Document that is not empty, the Block
\* and the table of the pending signatures together hold at least one
\* line, so the step adds the separator and at least one line after it.
C16_SeparatorIsFollowedByBlockLine ==
  [][(Flushes /\ text # <<>>) =>
       /\ Len(block.elems) + Len(PendingTable) >= 1
       /\ Len(text') >= Len(text) + 2
       /\ text'[Len(text) + 1] = <<>>]_vars

\* after a first block, a block of one empty comment line has been added:
\* the Document ends with the separator and the empty line of that block
C16_Witness ==
  /\ pc = "loop"
  /\ run = 1
  /\ pos = 5
  /\ program = <<LDoc, LBlank, LEmptyDoc, LSpace>>
  /\ text = <<Body(LDoc), <<>>, <<>> >>

\* ------------------------------------------------------------------------
\* C17
\* ------------------------------------------------------------------------
\* the separator cell of a table row in either variant
SepCell == tableCell(SepLit)

SepCellPadded == tableCell(SepLitPadded)

\* s from position start on, with every occurrence of from replaced by to
RECURSIVE ReplaceFrom(_, _, _, _)
ReplaceFrom(s, start, from, to) ==
  LET occ == {i \in start..Len(s) : HasAt(s, i, from)}
  IN  IF occ = {} THEN SubSeq(s, start, Len(s))
      ELSE LET i == Min(occ)
           IN  SubSeq(s, start, i - 1) \o to
                 \o ReplaceFrom(s, i + Len(from), from, to)

ReplaceAll(s, from, to) == ReplaceFrom(s, 1, from, to)

\* a line or Document with every separator cell padded
Padded(s) == ReplaceAll(s, SepCell, SepCellPadded)

PaddedAll(lines) == [k \in 1..Len(lines) |-> Padded(lines[k])]

\* the locals of part_000's untangle where this run of untangle is
Other ==
  IF pc = "returned" THEN untangle2(program)
  ELSE forEach2(FreshLocals, SubSeq(program, 1, pos - 1))

\* C17: in an invocation of each on the same program, after the same
\* lines and when both have returned, the two variants agree on inBlock,
\* on depth, on whether block is defined and on the number of lines of
\* block, sig and text; their signature entries differ in the separator
\* only, and the lines of block and text and the Document returned by
\* part_000 are those of untangle.js with :: padded to " :: " in the
\* separator cell of every table row. A synthesized header is thus at the
\* same place in both.
C17_VariantsCorrespond ==
  run = 1 =>
  LET O == Other
  IN  /\ ~O.thrown
      /\ O.inBlock = inBlock
      /\ O.depth = depth
      /\ O.block.defined = block.defined
      /\ Len(O.sig) = Len(sig)
      /\ \A k \in 1..Len(sig) :
           /\ O.sig[k][1] = sig[k][1]
           /\ sig[k][2] = SepLit
           /\ O.sig[k][2] = SepLitPadded
           /\ O.sig[k][3] = sig[k][3]
      /\ O.block.elems = PaddedAll(block.elems)
      /\ O.text = PaddedAll(text)
      /\ \A k \in 1..Len(text) : NotTable(text[k]) => O.text[k] = text[k]
      /\ pc = "returned" => document(O) = Padded(ret)

\* both variants have returned a Document of a synthesized header, a
\* signature table and a comment line; the tables differ
C17_Witness ==
  /\ pc = "returned"
  /\ run = 1
  /\ program = <<LNamedSig, LDoc, LBound>>
  /\ Len(text) = 3
  /\ LeadingHashes(text[1]) >= 1
  /\ IsTable(text[2])
  /\ untangle2(program).text[1] = text[1]
  /\ untangle2(program).text[2] # text[2]

====
